---- MODULE Spec2Model ----
(***************************************************************************)
(* PLAR (msrc/runner_plar.py): the run form (ToolForm), the supervisor it  *)
(* uses (QProcRunner over a QProcess) and the thread supervisor            *)
(* (ProcRunner over subprocess.Popen), with the child process and the      *)
(* merged stdout+stderr pipe as environment.                               *)
(***************************************************************************)
EXTENDS Integers, Sequences, FiniteSets, TLC

\* ---------------------------------------------------------------- bounds
MaxRuns  == 2      \* run requests accepted by ToolForm._on_run
MaxBytes == 2      \* bytes the children write to the merged stream, in total
MaxStops == 1      \* calls of ProcRunner.stop

\* ------------------------------------------------------------- constants
Sentinel == -1     \* ProcRunner.run: self.finished.emit(-1)

Runs == 1..MaxRuns

\* Bytes of the merged stream: a letter, the newline, and a byte that is not
\* valid UTF-8.
Bytes == {"a", "NL", "xFF"}

\* Results of the validation and _build_command part of _on_run: a
\* validation failure, an empty argument vector, a vector whose program
\* exists, a vector whose program cannot be executed.
Cmds         == {"prog", "nosuchprog"}
BuildResults == {"ValidationError", "empty"} \cup Cmds

\* Exit codes a child chooses when it exits by itself.
ExitCodes == {3}

VARIABLES
    supervisor,    \* the supervisor class the runs go through
    os_name,       \* os.name
    \* ToolForm
    status, run_btn, stop_btn, pending_cmd, start_timers, runner, requests,
    \* QProcRunner instances (their QProcess state)
    q_state,
    \* ProcRunner
    pr_cmd, pr_pc, proc, pr_stop, pr_buf, stop_pc, stops,
    \* environment and observation
    children, events, sig_log,
    \* ToolForm: the tool shown, its field widgets and the output folder line
    tool, fields, output_dir,
    \* observation of the form: the last _on_run, the file of the last
    \* _export_params, the last _import_params since the fields were edited
    ran, exported, imported,
    \* observation: how the last call of a stop returned to its caller
    stop_result,
    \* MainWindow: self.tools, the current row of the list (0 for none), the
    \* selection timer, the set_tool calls queued, _last_applied_row (0 for
    \* -1), and the load_config just made (observation)
    tools, list_row, select_timer, set_tool_timers, last_applied_row, loaded

formVars == <<status, run_btn, stop_btn, pending_cmd, start_timers, runner, requests>>
procVars == <<pr_cmd, pr_pc, proc, pr_stop, pr_buf, stop_pc, stops>>
editVars == <<tool, fields, output_dir, ran, exported, imported>>
winVars  == <<tools, list_row, select_timer, set_tool_timers, last_applied_row, loaded>>
vars == <<supervisor, os_name, formVars, q_state, procVars, children, events, sig_log,
          editVars, stop_result, winVars>>

\* ------------------------------------------------------------ the child
NoChild ==
    [spawned |-> FALSE, alive |-> FALSE, written |-> <<>>, pipe |-> <<>>,
     responsive |-> FALSE, soft |-> FALSE, killed |-> FALSE, rc |-> 0]

NewChild(resp) ==
    [spawned |-> TRUE, alive |-> TRUE, written |-> <<>>, pipe |-> <<>>,
     responsive |-> resp, soft |-> FALSE, killed |-> FALSE, rc |-> 0]

\* Exit status of a child ended by the forced kill, as the supervisor's
\* process API reports it.
KillCode(sup, os) ==
    IF sup = "ProcRunner"
    THEN (IF os = "nt" THEN 1 ELSE -9)
    ELSE (IF os = "nt" THEN 62097 ELSE 9)

\* Exit status of a child that ends on the soft interrupt (on nt the status
\* 0xC000013A, written as the 32-bit signed value).
SoftCode(os) == IF os = "nt" THEN -1073741510 ELSE -15

KillChild(c) ==
    IF c.alive
    THEN [c EXCEPT !.alive = FALSE, !.killed = TRUE, !.rc = KillCode(supervisor, os_name)]
    ELSE c

\* The signal calls made for child r, in order: "soft", "grace" (the sleep
\* ended with the child alive), "grace_exited" (it ended with the child
\* gone), "kill". A call that repeats the one before it is recorded once.
Log(r, sig) ==
    IF sig_log[r] # <<>> /\ sig_log[r][Len(sig_log[r])] = sig
    THEN sig_log
    ELSE [sig_log EXCEPT ![r] = Append(@, sig)]

GraceEnd(c) == IF c.alive THEN "grace" ELSE "grace_exited"

RECURSIVE TotalWritten(_)
TotalWritten(n) ==
    IF n = 0 THEN 0 ELSE Len(children[n].written) + TotalWritten(n - 1)

\* ------------------------------------------------------------ text
Ev(kind, line, code) == [kind |-> kind, line |-> line, code |-> code]

FirstNL(text) ==
    IF \E i \in 1..Len(text) : text[i] = "NL"
    THEN CHOOSE i \in 1..Len(text) :
            text[i] = "NL" /\ \A j \in 1..(i - 1) : text[j] # "NL"
    ELSE 0

\* bytes.decode(errors="replace")
decode_replace(data) ==
    [i \in 1..Len(data) |-> IF data[i] = "xFF" THEN "uFFFD" ELSE data[i]]

\* str.splitlines()
RECURSIVE splitlines(_)
splitlines(text) ==
    IF text = <<>> THEN <<>>
    ELSE LET i == FirstNL(text)
         IN  IF i = 0 THEN <<text>>
             ELSE <<SubSeq(text, 1, i - 1)>> \o splitlines(SubSeq(text, i + 1, Len(text)))

\* str.rstrip("\n")
RECURSIVE rstrip_nl(_)
rstrip_nl(line) ==
    IF line # <<>> /\ line[Len(line)] = "NL"
    THEN rstrip_nl(SubSeq(line, 1, Len(line) - 1))
    ELSE line

\* ------------------------------------------------------------ QProcRunner
\* _on_ready with the lines emitted last to first.
QProcRunner_on_ready_reversed(data) ==
    LET lines == splitlines(decode_replace(data))
    IN  [i \in 1..Len(lines) |-> Ev("line", lines[Len(lines) + 1 - i], 0)]

\* _on_ready: the lineReady emissions for the bytes read from the QProcess.
QProcRunner_on_ready(data) ==
    LET lines == splitlines(decode_replace(data))
    IN  [i \in 1..Len(lines) |-> Ev("line", lines[i], 0)]

\* _on_finished: the finished emission.
QProcRunner_on_finished(code) == <<Ev("finished", <<>>, code)>>

NextRunner ==
    IF \E r \in Runs : q_state[r] = "None"
    THEN CHOOSE r \in Runs : q_state[r] = "None" /\ \A s \in 1..(r - 1) : q_state[s] # "None"
    ELSE 0

\* ------------------------------------------------------------ ToolForm
\* _on_run, after collect_values, the required check and _build_command
\* gave the result built.
ToolForm_on_run(built) ==
    /\ supervisor = "QProcRunner"
    /\ requests < MaxRuns
    /\ IF built = "ValidationError"
       THEN UNCHANGED formVars
       ELSE /\ status' = "Running..."
            /\ run_btn' = FALSE
            /\ stop_btn' = TRUE
            /\ pending_cmd' = built
            /\ start_timers' = start_timers + 1
            /\ requests' = requests + 1
            /\ UNCHANGED runner
    /\ UNCHANGED <<winVars, stop_result, supervisor, os_name, q_state, procVars, children, events, sig_log>>

\* The Run button: clicked only while enabled. The tool and the values are
\* left open here: the result of the build is any of BuildResults.
ClickRun ==
    /\ run_btn
    /\ \E built \in BuildResults : ToolForm_on_run(built)
    /\ UNCHANGED editVars

\* MainWindow._run_selected, from the shortcuts and the list context menu.
MainWindow_run_selected ==
    /\ \E built \in BuildResults : ToolForm_on_run(built)
    /\ UNCHANGED editVars

\* _start_run, fired by the single-shot timer of _on_run; QProcRunner.start
\* and the outcome of QProcess.start are part of it.
ToolForm_start_run ==
    /\ supervisor = "QProcRunner"
    /\ start_timers > 0
    /\ start_timers' = start_timers - 1
    /\ IF pending_cmd \in {"None", "empty"}
       THEN UNCHANGED <<runner, q_state, children>>
       ELSE LET r == NextRunner
            IN  /\ runner' = r
                /\ IF pending_cmd = "nosuchprog"
                   THEN /\ q_state' = [q_state EXCEPT ![r] = "NotRunning"]
                        /\ UNCHANGED children
                   ELSE /\ q_state' = [q_state EXCEPT ![r] = "Running"]
                        /\ children' = [children EXCEPT ![r] = NewChild(FALSE)]
    /\ UNCHANGED <<editVars, winVars, stop_result, supervisor, os_name, status, run_btn, stop_btn, pending_cmd,
                   requests, procVars, events, sig_log>>

\* _on_stop (the Stop button, clicked only while enabled), with
\* QProcRunner.kill.
ToolForm_on_stop ==
    /\ supervisor = "QProcRunner"
    /\ stop_btn
    /\ IF runner # 0 /\ q_state[runner] # "NotRunning"
       THEN /\ children' = [children EXCEPT ![runner] = KillChild(@)]
            /\ sig_log' = Log(runner, "kill")
       ELSE UNCHANGED <<children, sig_log>>
    /\ status' = "Stopping..."
    /\ stop_result' = "returned"
    /\ UNCHANGED <<editVars, winVars, supervisor, os_name, run_btn, stop_btn, pending_cmd,
                   start_timers, runner, requests, q_state, procVars, events>>

\* QProcess.readyReadStandardOutput -> QProcRunner._on_ready -> the log.
QProcess_readyRead(r) ==
    /\ supervisor = "QProcRunner"
    /\ q_state[r] = "Running"
    /\ children[r].pipe # <<>>
    /\ events' = [events EXCEPT ![r] = @ \o QProcRunner_on_ready(children[r].pipe)]
    /\ children' = [children EXCEPT ![r].pipe = <<>>]
    /\ UNCHANGED <<editVars, winVars, stop_result, supervisor, os_name, formVars, q_state, procVars, sig_log>>

\* QProcess.finished -> QProcRunner._on_finished -> ToolForm._on_finished.
\* The QProcess reads what is left in the pipe before it reports the exit.
QProcess_finished(r) ==
    /\ supervisor = "QProcRunner"
    /\ q_state[r] = "Running"
    /\ ~children[r].alive
    /\ events' = [events EXCEPT ![r] =
                     @ \o QProcRunner_on_ready(children[r].pipe)
                       \o QProcRunner_on_finished(children[r].rc)]
    /\ children' = [children EXCEPT ![r].pipe = <<>>]
    /\ q_state' = [q_state EXCEPT ![r] = "NotRunning"]
    /\ status' = <<"Finished with code", children[r].rc>>
    /\ run_btn' = TRUE
    /\ stop_btn' = FALSE
    /\ runner' = 0
    /\ UNCHANGED <<editVars, winVars, stop_result, supervisor, os_name, pending_cmd, start_timers, requests, procVars, sig_log>>

\* ------------------------------------------------------------ ProcRunner
\* The child of the ProcRunner is child 1.
PR == 1

HasNL(text) == \E i \in 1..Len(text) : text[i] = "NL"

\* End of the merged stream: the write end is closed and nothing is left.
AtEOF == ~children[PR].alive /\ children[PR].pipe = <<>>

\* The except branch with finished emitted before error.
ProcRunner_run_except_finished_first ==
    <<Ev("finished", <<>>, Sentinel), Ev("error", <<>>, 0)>>

\* run, the except branch: the emissions for an exception.
ProcRunner_run_except == <<Ev("error", <<>>, 0), Ev("finished", <<>>, Sentinel)>>

\* run, up to the return of subprocess.Popen.
ProcRunner_run_begin ==
    /\ supervisor = "ProcRunner"
    /\ pr_pc = "init"
    /\ IF pr_cmd = "nosuchprog"
       THEN /\ events' = [events EXCEPT ![PR] =
                             @ \o <<Ev("started", <<>>, 0)>> \o ProcRunner_run_except]
            /\ pr_pc' = "done"
            /\ UNCHANGED <<proc, children>>
       ELSE /\ events' = [events EXCEPT ![PR] = Append(@, Ev("started", <<>>, 0))]
            /\ \E resp \in BOOLEAN : children' = [children EXCEPT ![PR] = NewChild(resp)]
            /\ proc' = PR
            /\ pr_pc' = "loop"
    /\ UNCHANGED <<editVars, winVars, stop_result, supervisor, os_name, formVars, q_state, pr_cmd, pr_stop, pr_buf,
                   stop_pc, stops, sig_log>>

\* run, the iteration over self.proc.stdout when no whole line is decoded
\* yet: the text layer reads what the pipe holds and decodes it (strict).
ProcRunner_run_read ==
    /\ supervisor = "ProcRunner"
    /\ pr_pc = "loop"
    /\ ~HasNL(pr_buf)
    /\ children[PR].pipe # <<>>
    /\ children' = [children EXCEPT ![PR].pipe = <<>>]
    /\ IF \E i \in 1..Len(children[PR].pipe) : children[PR].pipe[i] = "xFF"
       THEN /\ events' = [events EXCEPT ![PR] = @ \o ProcRunner_run_except]
            /\ pr_pc' = "done"
            /\ UNCHANGED pr_buf
       ELSE /\ pr_buf' = pr_buf \o children[PR].pipe
            /\ UNCHANGED <<events, pr_pc>>
    /\ UNCHANGED <<editVars, winVars, stop_result, supervisor, os_name, formVars, q_state, pr_cmd, proc, pr_stop,
                   stop_pc, stops, sig_log>>

\* run, the loop body for the next line: a whole line, or what is left at
\* the end of the stream.
ProcRunner_run_line ==
    /\ supervisor = "ProcRunner"
    /\ pr_pc = "loop"
    /\ HasNL(pr_buf) \/ (AtEOF /\ pr_buf # <<>>)
    /\ LET n    == IF HasNL(pr_buf) THEN FirstNL(pr_buf) ELSE Len(pr_buf)
           line == SubSeq(pr_buf, 1, n)
       IN  /\ events' = [events EXCEPT ![PR] = Append(@, Ev("line", rstrip_nl(line), 0))]
           /\ pr_buf' = SubSeq(pr_buf, n + 1, Len(pr_buf))
    /\ pr_pc' = IF pr_stop THEN "wait" ELSE "loop"
    /\ UNCHANGED <<editVars, winVars, stop_result, supervisor, os_name, formVars, q_state, pr_cmd, proc, pr_stop,
                   stop_pc, stops, children, sig_log>>

\* run, the end of the iteration.
ProcRunner_run_eof ==
    /\ supervisor = "ProcRunner"
    /\ pr_pc = "loop"
    /\ AtEOF
    /\ pr_buf = <<>>
    /\ pr_pc' = "wait"
    /\ UNCHANGED <<editVars, winVars, stop_result, supervisor, os_name, formVars, q_state, pr_cmd, proc, pr_stop, pr_buf,
                   stop_pc, stops, children, events, sig_log>>

\* run, rc = self.proc.wait() and finished.emit(rc).
ProcRunner_run_wait ==
    /\ supervisor = "ProcRunner"
    /\ pr_pc = "wait"
    /\ ~children[PR].alive
    /\ events' = [events EXCEPT ![PR] = Append(@, Ev("finished", <<>>, children[PR].rc))]
    /\ pr_pc' = "done"
    /\ UNCHANGED <<editVars, winVars, stop_result, supervisor, os_name, formVars, q_state, pr_cmd, proc, pr_stop, pr_buf,
                   stop_pc, stops, children, sig_log>>

\* stop with the exception of a signal call left to the caller.
ProcRunner_stop_except_raises == "raised"

\* stop, "except Exception: pass": how the call ends for its caller when a
\* signal call raised.
ProcRunner_stop_except == "passed"

\* stop, up to the sleep: the flag and the soft interrupt. delivered = FALSE
\* is a signal call that raises, which the except branch swallows.
ProcRunner_stop_begin(delivered) ==
    /\ supervisor = "ProcRunner"
    /\ stop_pc = "idle"
    /\ stops < MaxStops
    /\ stops' = stops + 1
    /\ pr_stop' = TRUE
    /\ IF proc = 0
       THEN /\ stop_result' = "returned"
            /\ UNCHANGED <<stop_pc, children, sig_log>>
       ELSE IF children[PR].alive /\ ~delivered
            THEN /\ stop_result' = ProcRunner_stop_except
                 /\ UNCHANGED <<stop_pc, children, sig_log>>
            ELSE /\ stop_pc' = "sleep"
                 /\ stop_result' = "sleeping"
                 /\ children' = [children EXCEPT ![PR].soft = @ \/ children[PR].alive]
                 /\ sig_log' = IF children[PR].alive THEN Log(PR, "soft") ELSE sig_log
    /\ UNCHANGED <<editVars, winVars, supervisor, os_name, formVars, q_state, pr_cmd, pr_pc, proc, pr_buf, events>>

\* stop, after the sleep: the forced kill.
ProcRunner_stop_kill ==
    /\ supervisor = "ProcRunner"
    /\ stop_pc = "sleep"
    /\ stop_pc' = "idle"
    /\ stop_result' = "returned"
    /\ IF os_name = "nt" \/ children[PR].alive
       THEN /\ children' = [children EXCEPT ![PR] = KillChild(@)]
            /\ sig_log' = [sig_log EXCEPT ![PR] = @ \o <<GraceEnd(children[PR]), "kill">>]
       ELSE /\ sig_log' = Log(PR, GraceEnd(children[PR]))
            /\ UNCHANGED children
    /\ UNCHANGED <<editVars, winVars, supervisor, os_name, formVars, q_state, pr_cmd, pr_pc, proc, pr_stop,
                   pr_buf, stops, events>>

\* ------------------------------------------------------------ environment
\* The bytes a child is made to write. ProcRunner decodes strictly, so its
\* child also writes the undecodable byte; under errors="replace" that byte
\* is one more character of its line, and the children of a QProcRunner
\* write the letter and the newline.
WriteBytes == IF supervisor = "ProcRunner" THEN Bytes ELSE Bytes \ {"xFF"}

\* The child writes one byte to the merged stream.
Child_write(r, b) ==
    /\ children[r].alive
    /\ b \in WriteBytes
    /\ TotalWritten(MaxRuns) < MaxBytes
    /\ children' = [children EXCEPT ![r].written = Append(@, b), ![r].pipe = Append(@, b)]
    /\ UNCHANGED <<editVars, winVars, stop_result, supervisor, os_name, formVars, q_state, procVars, events, sig_log>>

\* The child exits by itself.
Child_exit(r, rc) ==
    /\ children[r].alive
    /\ children' = [children EXCEPT ![r].alive = FALSE, ![r].rc = rc]
    /\ UNCHANGED <<editVars, winVars, stop_result, supervisor, os_name, formVars, q_state, procVars, events, sig_log>>

\* A child that honours the soft interrupt ends on it.
Child_soft_exit(r) ==
    /\ children[r].alive
    /\ children[r].soft
    /\ children[r].responsive
    /\ children' = [children EXCEPT ![r].alive = FALSE, ![r].rc = SoftCode(os_name)]
    /\ UNCHANGED <<editVars, winVars, stop_result, supervisor, os_name, formVars, q_state, procVars, events, sig_log>>

\* ------------------------------------------------------------ str
\* A str is the sequence of its characters.
SP == " "
DQ == "\""
SQ == "'"
BS == "\\"

IsSpace(c) == c \in {SP, "NL"}

Ok(v) == [ok |-> TRUE, val |-> v, exc |-> "", arg |-> <<>>]
Raise(exc, arg) == [ok |-> FALSE, val |-> <<>>, exc |-> exc, arg |-> arg]

\* str.strip()
RECURSIVE strip(_)
strip(t) ==
    IF t = <<>> THEN t
    ELSE IF IsSpace(t[1]) THEN strip(Tail(t))
    ELSE IF IsSpace(t[Len(t)]) THEN strip(SubSeq(t, 1, Len(t) - 1))
    ELSE t

\* str.lower(), on the letters the texts of the model are made of.
lower(t) ==
    [i \in 1..Len(t) |->
        CASE t[i] = "T" -> "t"
          [] t[i] = "F" -> "f"
          [] t[i] = "Y" -> "y"
          [] t[i] = "O" -> "o"
          [] t[i] = "N" -> "n"
          [] OTHER -> t[i]]

\* The place of the first c in t, 0 when there is none.
find(t, c) ==
    IF \E i \in 1..Len(t) : t[i] = c
    THEN CHOOSE i \in 1..Len(t) : t[i] = c /\ \A j \in 1..(i - 1) : t[j] # c
    ELSE 0

\* t.split(sep), sep one character.
RECURSIVE split(_, _)
split(t, sep) ==
    LET i == find(t, sep)
    IN  IF i = 0 THEN <<t>>
        ELSE <<SubSeq(t, 1, i - 1)>> \o split(SubSeq(t, i + 1, Len(t)), sep)

\* sep.join(items), sep one character.
RECURSIVE join(_, _)
join(sep, items) ==
    IF items = <<>> THEN <<>>
    ELSE IF Len(items) = 1 THEN items[1]
    ELSE items[1] \o <<sep>> \o join(sep, Tail(items))

\* [s.strip() for s in t.split(",") if s.strip()]
RECURSIVE stripped_nonempty(_)
stripped_nonempty(items) ==
    IF items = <<>> THEN <<>>
    ELSE (IF strip(items[1]) # <<>> THEN <<strip(items[1])>> ELSE <<>>)
         \o stripped_nonempty(Tail(items))

\* str(n) of an int.
RECURSIVE str_nat(_)
str_nat(n) ==
    LET d == <<"0", "1", "2", "3", "4", "5", "6", "7", "8", "9">>[(n % 10) + 1]
    IN  IF n < 10 THEN <<d>> ELSE str_nat(n \div 10) \o <<d>>

str_int(n) == IF n < 0 THEN <<"-">> \o str_nat(0 - n) ELSE str_nat(n)

\* Python values: a str, a bool, an int, a list of str, None.
Str(t)   == [py |-> "str", s |-> t, b |-> FALSE, n |-> 0, l |-> <<>>]
Bool(b)  == [py |-> "bool", s |-> <<>>, b |-> b, n |-> 0, l |-> <<>>]
IntV(n)  == [py |-> "int", s |-> <<>>, b |-> FALSE, n |-> n, l |-> <<>>]
ListV(l) == [py |-> "list", s |-> <<>>, b |-> FALSE, n |-> 0, l |-> l]
None     == [py |-> "None", s |-> <<>>, b |-> FALSE, n |-> 0, l |-> <<>>]

\* repr of the items of a list of str, for str(list).
RECURSIVE repr_items(_)
repr_items(l) ==
    IF l = <<>> THEN <<>>
    ELSE <<SQ>> \o l[1] \o <<SQ>>
         \o (IF Len(l) > 1 THEN <<",", SP>> \o repr_items(Tail(l)) ELSE <<>>)

\* str(v)
str(v) ==
    CASE v.py = "str"  -> v.s
      [] v.py = "bool" -> IF v.b THEN <<"T", "r", "u", "e">> ELSE <<"F", "a", "l", "s", "e">>
      [] v.py = "int"  -> str_int(v.n)
      [] v.py = "list" -> <<"[">> \o repr_items(v.l) \o <<"]">>
      [] OTHER         -> <<"N", "o", "n", "e">>

\* bool(v)
truthy(v) ==
    CASE v.py = "str"  -> v.s # <<>>
      [] v.py = "bool" -> v.b
      [] v.py = "int"  -> v.n # 0
      [] v.py = "list" -> v.l # <<>>
      [] OTHER         -> FALSE

\* int(t) of a str: blanks around an optional sign and decimal digits.
IsDigit(c) == c \in {"0", "1", "2", "3", "4", "5", "6", "7", "8", "9"}

DigitValue(c) == CHOOSE d \in 0..9 : <<"0", "1", "2", "3", "4", "5", "6", "7", "8", "9">>[d + 1] = c

RECURSIVE nat_of(_)
nat_of(t) ==
    IF t = <<>> THEN 0
    ELSE 10 * nat_of(SubSeq(t, 1, Len(t) - 1)) + DigitValue(t[Len(t)])

int_of_str(t) ==
    LET u == strip(t)
        d == IF u # <<>> /\ u[1] \in {"-", "+"} THEN Tail(u) ELSE u
    IN  IF d = <<>> \/ \E i \in 1..Len(d) : ~IsDigit(d[i])
        THEN Raise("ValueError", t)
        ELSE Ok(IF u[1] = "-" THEN 0 - nat_of(d) ELSE nat_of(d))

\* int(v)
int(v) ==
    CASE v.py = "int"  -> Ok(v.n)
      [] v.py = "bool" -> Ok(IF v.b THEN 1 ELSE 0)
      [] v.py = "str"  -> int_of_str(v.s)
      [] OTHER         -> Raise("TypeError", <<>>)

\* ------------------------------------------------------------ dict
\* A dict is the sequence of its items in insertion order, keys unique.
Item(k, v) == [k |-> k, v |-> v]

Keys(d) == {d[i].k : i \in 1..Len(d)}

\* d[k], for k a key of d.
Get(d, k) == d[CHOOSE i \in 1..Len(d) : d[i].k = k].v

\* d[k] = v: a key already there keeps its place.
DictSet(d, k, v) ==
    IF k \in Keys(d)
    THEN [i \in 1..Len(d) |-> IF d[i].k = k THEN Item(k, v) ELSE d[i]]
    ELSE Append(d, Item(k, v))

\* {**d, **e}
RECURSIVE DictUpdate(_, _)
DictUpdate(d, e) ==
    IF e = <<>> THEN d
    ELSE DictUpdate(DictSet(d, e[1].k, e[1].v), Tail(e))

\* ------------------------------------------------------------ data models
\* InputSpec; default is None unless a tool below sets it.
InputSpec(name, type, choices, required) ==
    [name |-> name, type |-> type, choices |-> choices, required |-> required,
     default |-> None]

\* ToolSpec; script is None or a str value.
ToolSpec(name, mode, target, script, inputs) ==
    [name |-> name, runner_mode |-> mode, runner |-> target,
     script |-> script, inputs |-> inputs]

NoTool == ToolSpec(<<>>, "module", <<>>, None, <<>>)

\* The state of a field widget: the text of a line or plain-text edit, the
\* value of a spin box, the check of a check box, the current row of a combo
\* box (0 for no row), the checked rows of a CheckableComboBox.
Widget(text, value, checked, row, rows) ==
    [text |-> text, value |-> value, checked |-> checked, row |-> row, rows |-> rows]

\* The texts a check box takes for "on".
OnWords == {<<"y", "e", "s">>, <<"t", "r", "u", "e">>, <<"o", "n">>, <<"1">>}

\* set_tool, the check of a QCheckBox built for a toggle with this default.
toggle_default_unstripped(default) ==
    IF default.py # "None" THEN lower(str(default)) \in OnWords ELSE FALSE

toggle_default(default) ==
    IF default.py # "None" THEN lower(strip(str(default))) \in OnWords ELSE FALSE

\* set_tool: the widget built for an input; a default is given to line
\* edits and check boxes only.
set_tool_widget(spec) ==
    Widget(IF spec.type \in {"string", "password"} /\ spec.default.py # "None"
           THEN str(spec.default) ELSE <<>>,
           0,
           spec.type = "toggle" /\ toggle_default(spec.default),
           IF spec.type = "enum" /\ spec.choices # <<>> THEN 1 ELSE 0,
           {})

\* set_tool: self.fields, one widget per input name.
set_tool(t) ==
    [name \in {t.inputs[i].name : i \in 1..Len(t.inputs)} |->
        set_tool_widget(t.inputs[CHOOSE i \in 1..Len(t.inputs) : t.inputs[i].name = name])]

\* CheckableComboBox.checkedItems: the texts of the checked rows, in row order.
RECURSIVE checkedItems(_, _, _)
checkedItems(choices, rows, i) ==
    IF i > Len(choices) THEN <<>>
    ELSE (IF i \in rows THEN <<choices[i]>> ELSE <<>>) \o checkedItems(choices, rows, i + 1)

\* CheckableComboBox.setCheckedItems: the rows whose text is wanted.
setCheckedItems(choices, items) ==
    {i \in 1..Len(choices) : \E j \in 1..Len(items) : items[j] = choices[i]}

\* QComboBox.findText: the first row with that text, 0 for -1.
findText(choices, t) ==
    IF \E i \in 1..Len(choices) : choices[i] = t
    THEN CHOOSE i \in 1..Len(choices) :
            choices[i] = t /\ \A j \in 1..(i - 1) : choices[j] # t
    ELSE 0

\* QComboBox.currentText
currentText(choices, row) == IF row = 0 THEN <<>> ELSE choices[row]

\* collect_values, the value of one input.
collect_value(spec, w) ==
    CASE spec.type \in {"string", "file", "folder", "password"} -> Str(strip(w.text))
      [] spec.type = "int"       -> IntV(w.value)
      [] spec.type = "enum"      -> Str(currentText(spec.choices, w.row))
      [] spec.type = "multienum" -> Str(join(",", checkedItems(spec.choices, w.rows, 1)))
      [] spec.type = "toggle"    -> Bool(w.checked)
      [] spec.type = "list"      -> Str(join(",", stripped_nonempty(splitlines(w.text))))
      [] OTHER                   -> Str(strip(w.text))

K_output_dir == <<"_", "o", "u", "t", "p", "u", "t", "_", "d", "i", "r">>

RECURSIVE collect_inputs(_, _, _)
collect_inputs(inputs, f, vals) ==
    IF inputs = <<>> THEN vals
    ELSE collect_inputs(Tail(inputs), f,
                        DictSet(vals, inputs[1].name, collect_value(inputs[1], f[inputs[1].name])))

\* collect_values: the value bag of the form.
collect_values(t, f, out) ==
    DictSet(collect_inputs(t.inputs, f, <<>>), K_output_dir,
            IF strip(out) # <<>> THEN Str(strip(out)) ELSE None)

NoRun    == [called |-> FALSE, vals |-> <<>>, dialog |-> "", built |-> FALSE,
             table |-> <<>>, result |-> Ok(<<>>),
             after |-> [tool |-> NoTool, vals |-> <<>>]]
NoRecord == [written |-> FALSE, file |-> [tool |-> None, values |-> <<>>]]
NoLoad   == [called |-> FALSE, raw |-> <<>>, ok |-> TRUE]
NoImport == [called |-> FALSE, file |-> [tool |-> None, values |-> <<>>], asked |-> FALSE,
             answer |-> "", applied |-> FALSE, before |-> <<>>, log |-> <<>>]

\* The form, the supervisors and the children before any run.
RunInit ==
    /\ \/ supervisor = "QProcRunner" /\ os_name = "posix"
       \/ supervisor = "ProcRunner" /\ os_name \in {"nt", "posix"}
    /\ status = "Ready"
    /\ run_btn = TRUE
    /\ stop_btn = FALSE
    /\ pending_cmd = "None"
    /\ start_timers = 0
    /\ runner = 0
    /\ requests = 0
    /\ q_state = [r \in Runs |-> "None"]
    /\ pr_cmd \in Cmds
    /\ pr_pc = "init"
    /\ proc = 0
    /\ pr_stop = FALSE
    /\ pr_buf = <<>>
    /\ stop_pc = "idle"
    /\ stops = 0
    /\ children = [r \in Runs |-> NoChild]
    /\ events = [r \in Runs |-> <<>>]
    /\ sig_log = [r \in Runs |-> <<>>]
    /\ stop_result = ""

\* No window: the tool list is left out.
NoWindow ==
    /\ tools = <<>>
    /\ list_row = 0
    /\ select_timer = FALSE
    /\ set_tool_timers = <<>>
    /\ last_applied_row = 0
    /\ loaded = NoLoad

\* No tool is shown: the values of a run are left open.
Init ==
    /\ RunInit
    /\ tool = NoTool
    /\ fields = <<>>
    /\ output_dir = <<>>
    /\ ran = NoRun
    /\ exported = NoRecord
    /\ imported = NoImport
    /\ NoWindow

Next ==
    \/ ClickRun
    \/ MainWindow_run_selected
    \/ ToolForm_start_run
    \/ ToolForm_on_stop
    \/ \E r \in Runs : QProcess_readyRead(r)
    \/ \E r \in Runs : QProcess_finished(r)
    \/ ProcRunner_run_begin
    \/ ProcRunner_run_read
    \/ ProcRunner_run_line
    \/ ProcRunner_run_eof
    \/ ProcRunner_run_wait
    \/ \E delivered \in BOOLEAN : ProcRunner_stop_begin(delivered)
    \/ ProcRunner_stop_kill
    \/ \E r \in Runs : \E b \in Bytes : Child_write(r, b)
    \/ \E r \in Runs : \E rc \in ExitCodes : Child_exit(r, rc)
    \/ \E r \in Runs : Child_soft_exit(r)

Spec == Init /\ [][Next]_vars

\* ------------------------------------------------------------ the compiler
\* sys.executable with "/" for "\"; the file exists.
py == <<"p", "y">>

K_python     == <<"p", "y", "t", "h", "o", "n">>
K_python_u   == K_python \o <<"_", "u">>
K_script     == <<"s", "c", "r", "i", "p", "t">>
K_out        == <<"o", "u", "t", "p", "u", "t", "_", "d", "i", "r">>
T_u          == <<"-", "u">>
T_m          == <<"-", "m">>
T_func       == <<"-", "-", "f", "u", "n", "c">>
T_output_dir == <<"-", "-">> \o K_out

\* parse_module_runner
parse_module_runner(t) ==
    IF find(t, ":") = 0
    THEN Raise("ValueError: Runner must be 'pkg.module:function'", <<>>)
    ELSE Ok(<<strip(SubSeq(t, 1, find(t, ":") - 1)),
              strip(SubSeq(t, find(t, ":") + 1, Len(t)))>>)

\* The replacement field of str.format with a missing key read as "".
format_field_lenient(ph, key) ==
    IF key = <<>> THEN Raise("IndexError", <<>>)
    ELSE IF key \notin Keys(ph) THEN Ok(<<>>)
    ELSE Ok(str(Get(ph, key)))

\* str.format(**ph), one replacement field {key}.
format_field(ph, key) ==
    IF key = <<>> THEN Raise("IndexError", <<>>)
    ELSE IF key \notin Keys(ph) THEN Raise("KeyError", key)
    ELSE Ok(str(Get(ph, key)))

\* str.format(**ph) on templates whose fields are plain names: {{ and }} are
\* the braces, {key} is replaced, a brace without its pair or inside a field
\* is a ValueError, the first error from the left is raised.
RECURSIVE format(_, _)
format(t, ph) ==
    IF t = <<>> THEN Ok(<<>>)
    ELSE LET two  == Len(t) >= 2 /\ t[2] = t[1]
             j    == find(t, "}")
             used == IF t[1] \in {"{", "}"} /\ two THEN 2
                     ELSE IF t[1] = "{" THEN j
                     ELSE 1
             head == IF t[1] \in {"{", "}"} /\ two THEN Ok(<<t[1]>>)
                     ELSE IF t[1] = "{"
                          THEN (IF j = 0 \/ find(SubSeq(t, 2, j - 1), "{") # 0
                                THEN Raise("ValueError", <<>>)
                                ELSE format_field(ph, SubSeq(t, 2, j - 1)))
                     ELSE IF t[1] = "}" THEN Raise("ValueError", <<>>)
                     ELSE Ok(<<t[1]>>)
         IN  IF ~head.ok THEN head
             ELSE LET rest == format(SubSeq(t, used + 1, Len(t)), ph)
                  IN  IF rest.ok THEN Ok(head.val \o rest.val) ELSE rest

\* shlex.split(t): the POSIX rules with whitespace_split. state is " "
\* between words, "a" in a word, a quote inside that quote, the backslash
\* after an escape (esc is the state to go back to).
RECURSIVE shlex_read(_, _, _, _, _, _)
shlex_read(t, state, esc, token, quoted, out) ==
    IF t = <<>>
    THEN IF state \in {DQ, SQ, BS} THEN Raise("ValueError", <<>>)
         ELSE IF state = "a" /\ (token # <<>> \/ quoted) THEN Ok(Append(out, token))
         ELSE Ok(out)
    ELSE LET c == t[1]
             r == Tail(t)
         IN  CASE state = " " ->
                    IF IsSpace(c) THEN shlex_read(r, " ", esc, token, quoted, out)
                    ELSE IF c = BS THEN shlex_read(r, BS, "a", token, quoted, out)
                    ELSE IF c \in {DQ, SQ} THEN shlex_read(r, c, esc, token, TRUE, out)
                    ELSE shlex_read(r, "a", esc, <<c>>, quoted, out)
               [] state \in {DQ, SQ} ->
                    IF c = state THEN shlex_read(r, "a", esc, token, TRUE, out)
                    ELSE IF c = BS /\ state = DQ THEN shlex_read(r, BS, DQ, token, TRUE, out)
                    ELSE shlex_read(r, state, esc, Append(token, c), TRUE, out)
               [] state = BS ->
                    IF esc \in {DQ, SQ} /\ c # BS /\ c # esc
                    THEN shlex_read(r, esc, esc, token \o <<BS, c>>, quoted, out)
                    ELSE shlex_read(r, esc, esc, Append(token, c), quoted, out)
               [] OTHER ->
                    IF IsSpace(c)
                    THEN (IF token # <<>> \/ quoted
                          THEN shlex_read(r, " ", esc, <<>>, FALSE, Append(out, token))
                          ELSE shlex_read(r, " ", esc, <<>>, FALSE, out))
                    ELSE IF c \in {DQ, SQ} THEN shlex_read(r, c, esc, token, TRUE, out)
                    ELSE IF c = BS THEN shlex_read(r, BS, "a", token, quoted, out)
                    ELSE shlex_read(r, "a", esc, Append(token, c), quoted, out)

shlex_split(t) == shlex_read(t, " ", "a", <<>>, FALSE, <<>>)

\* _build_command, the toggle placeholders with the two flags exchanged.
toggle_placeholders_swapped(k, on) ==
    << Item(k \o <<"_", "f", "l", "a", "g">>,
            Str(IF on THEN <<"-", "-", "n", "o", "-">> \o k ELSE <<"-", "-">> \o k)),
       Item(k \o <<"_", "y", "n">>, Str(IF on THEN <<"y", "e", "s">> ELSE <<"n", "o">>)),
       Item(k \o <<"_", "0", "1">>, Str(IF on THEN <<"1">> ELSE <<"0">>)) >>

\* _build_command, the loop body over toggle_names.
toggle_placeholders(k, on) ==
    << Item(k \o <<"_", "f", "l", "a", "g">>,
            Str(IF on THEN <<"-", "-">> \o k ELSE <<"-", "-", "n", "o", "-">> \o k)),
       Item(k \o <<"_", "y", "n">>, Str(IF on THEN <<"y", "e", "s">> ELSE <<"n", "o">>)),
       Item(k \o <<"_", "0", "1">>, Str(IF on THEN <<"1">> ELSE <<"0">>)) >>

RECURSIVE add_toggles(_, _, _)
add_toggles(ph, inputs, vals) ==
    IF inputs = <<>> THEN ph
    ELSE add_toggles(
            IF inputs[1].type = "toggle"
            THEN DictUpdate(ph, toggle_placeholders(
                                    inputs[1].name,
                                    inputs[1].name \in Keys(vals)
                                        /\ truthy(Get(vals, inputs[1].name))))
            ELSE ph,
            Tail(inputs), vals)

\* _build_command, the placeholders dict with the values of the form put
\* in after the derived keys.
placeholders_values_last(t, vals) ==
    DictUpdate(
        add_toggles(
            << Item(K_python, Str(py)),
               Item(K_python_u, Str(py \o <<SP>> \o T_u)),
               Item(K_script, IF truthy(t.script) THEN t.script ELSE Str(<<>>)),
               Item(K_out, IF K_output_dir \in Keys(vals) /\ truthy(Get(vals, K_output_dir))
                           THEN Get(vals, K_output_dir) ELSE Str(<<>>)) >>,
            t.inputs, vals),
        vals)

\* _build_command, the placeholders dict.
placeholders(t, vals) ==
    add_toggles(
        DictUpdate(vals,
            << Item(K_python, Str(py)),
               Item(K_python_u, Str(py \o <<SP>> \o T_u)),
               Item(K_script, IF truthy(t.script) THEN t.script ELSE Str(<<>>)),
               Item(K_out, IF K_output_dir \in Keys(vals) /\ truthy(Get(vals, K_output_dir))
                           THEN Get(vals, K_output_dir) ELSE Str(<<>>)) >>),
        t.inputs, vals)

\* _build_command, module mode, the loop with the pair joined into one token.
module_args_joined(vals) ==
    [i \in 1..Len(vals) |-> <<"-", "-">> \o vals[i].k \o <<SP>> \o str(vals[i].v)]

\* _build_command, module mode: for k, v in vals.items().
RECURSIVE module_args(_)
module_args(vals) ==
    IF vals = <<>> THEN <<>>
    ELSE (IF vals[1].k = K_output_dir
          THEN <<>>
          ELSE << <<"-", "-">> \o vals[1].k, str(vals[1].v) >>)
         \o module_args(Tail(vals))

\* _build_command: the argument vector, or the exception raised.
build_command(t, vals) ==
    IF t.runner_mode = "module"
    THEN LET p == parse_module_runner(t.runner)
         IN  IF ~p.ok THEN p
             ELSE Ok(<<py, T_u, T_m, p.val[1], T_func, p.val[2]>>
                     \o module_args(vals)
                     \o (IF K_output_dir \in Keys(vals) /\ truthy(Get(vals, K_output_dir))
                         THEN <<T_output_dir, Get(vals, K_output_dir).s>>
                         ELSE <<>>))
    ELSE IF t.runner_mode = "command"
    THEN IF t.runner = <<>>
         THEN Raise("ValueError: Command template is empty.", <<>>)
         ELSE LET templ == format(t.runner, placeholders(t, vals))
              IN  IF templ.ok THEN shlex_split(templ.val)
                  ELSE IF templ.exc = "KeyError"
                       THEN Raise("ValueError: Missing placeholder in template", templ.arg)
                       ELSE templ
    ELSE Raise("ValueError: Unknown runner_mode", <<>>)

\* _build_command with placeholders the dict passed in and not a copy of it.
build_effect_in_place(t, vals) ==
    [tool |-> t, vals |-> IF t.runner_mode = "module" THEN vals ELSE placeholders(t, vals)]

\* _build_command, the objects passed in as the call leaves them, on return
\* and on raise: placeholders is a new dict made from vals, the stores of
\* the toggle loop go into it, cmd is a new list, tool is read only.
build_effect(t, vals) == [tool |-> t, vals |-> vals]

\* _on_run, the required check: v in (None, "", []).
is_missing(v) == v.py = "None" \/ (v.py = "str" /\ v.s = <<>>)

missing_required(t, vals) ==
    \E i \in 1..Len(t.inputs) :
        /\ t.inputs[i].required
        /\ t.inputs[i].name \in Keys(vals) => is_missing(Get(vals, t.inputs[i].name))

\* What _on_run did: the values collected, the message box shown ("" for
\* none), the placeholders and the result of _build_command if it was called.
RunOf(t, vals) ==
    IF missing_required(t, vals)
    THEN [called |-> TRUE, vals |-> vals, dialog |-> "Missing Input",
          built |-> FALSE, table |-> <<>>, result |-> Ok(<<>>),
          after |-> [tool |-> t, vals |-> vals]]
    ELSE [called |-> TRUE, vals |-> vals,
          dialog |-> IF build_command(t, vals).ok THEN "" ELSE "Build Error",
          built |-> TRUE, table |-> placeholders(t, vals),
          result |-> build_command(t, vals),
          after |-> build_effect(t, vals)]

\* The argument vector as _start_run and QProcess.start see it.
BuildResultOf(run) ==
    IF run.dialog # "" THEN "ValidationError"
    ELSE IF run.result.val = <<>> THEN "empty"
    ELSE "prog"

\* ------------------------------------------------------------ the form
\* What the user can put into the widget of an input.
LineTexts == {<<>>, <<"a">>, <<"a", SP, "b">>, <<SP, "a">>, <<DQ>>, <<"a", BS>>}
ListTexts == {<<>>, <<"a">>, <<"a", "NL", "b">>, <<"a", ",", "b">>}
SpinValues == {0, 12, -3}
OutTexts  == {<<>>, <<"o">>}

WidgetStates(spec) ==
    CASE spec.type = "toggle"    -> {Widget(<<>>, 0, b, 0, {}) : b \in BOOLEAN}
      [] spec.type = "int"       -> {Widget(<<>>, n, FALSE, 0, {}) : n \in SpinValues}
      [] spec.type = "enum"      -> {Widget(<<>>, 0, FALSE, r, {}) : r \in 1..Len(spec.choices)}
      [] spec.type = "multienum" -> {Widget(<<>>, 0, FALSE, 0, rs) :
                                        rs \in SUBSET (1..Len(spec.choices))}
      [] spec.type = "list"      -> {Widget(t, 0, FALSE, 0, {}) : t \in ListTexts}
      [] OTHER                   -> {Widget(t, 0, FALSE, 0, {}) : t \in LineTexts}

\* The user changes the widget of input i.
User_edit(i, w) ==
    /\ i \in 1..Len(tool.inputs)
    /\ w \in WidgetStates(tool.inputs[i])
    /\ fields' = [fields EXCEPT ![tool.inputs[i].name] = w]
    /\ imported' = NoImport
    /\ UNCHANGED <<winVars, stop_result, supervisor, os_name, formVars, q_state, procVars,
                   children, events,
                   sig_log, tool, output_dir, ran, exported>>

\* The user changes the output folder line.
User_edit_output_dir(t) ==
    /\ output_dir' = t
    /\ UNCHANGED <<winVars, stop_result, supervisor, os_name, formVars, q_state, procVars,
                   children, events,
                   sig_log, tool, fields, ran, exported, imported>>

\* _on_run on the tool shown and the values of the form (from the Run
\* button while it is enabled, or from MainWindow._run_selected).
ToolForm_on_run_values ==
    /\ tool # NoTool
    /\ LET run == RunOf(tool, collect_values(tool, fields, output_dir))
       IN  /\ ToolForm_on_run(BuildResultOf(run))
           /\ ran' = run
    /\ UNCHANGED <<tool, fields, output_dir, exported, imported>>

\* ------------------------------------------------------------ the tools compiled
N_s == <<"s">>
N_t == <<"t">>
N_x == <<"x">>

CompilerInputs ==
    {<<InputSpec(N_s, "string", <<>>, req), InputSpec(N_t, "toggle", <<>>, FALSE)>> :
        req \in BOOLEAN}

\* Module targets: m:f, mf, :f, m: and m:f:g.
ModuleRunners ==
    {<<"m", ":", "f">>, <<"m", "f">>, <<":", "f">>, <<"m", ":">>,
     <<"m", ":", "f", ":", "g">>}

\* Command templates:  --n "{s}"  |  {s}  |  {s} {x}  |  {script}  |  the
\* empty one  |  {python_u} {s} {t_flag} {t_yn} {t_01}
Tp_quoted  == <<"-", "-", "n", SP, DQ, "{", "s", "}", DQ>>
Tp_plain   == <<"{", "s", "}">>
Tp_missing == <<"{", "s", "}", SP, "{", "x", "}">>
Tp_script  == <<"{">> \o K_script \o <<"}">>
Tp_all     == <<"{">> \o K_python_u \o <<"}", SP, "{", "s", "}", SP,
                "{", "t", "_", "f", "l", "a", "g", "}", SP,
                "{", "t", "_", "y", "n", "}", SP,
                "{", "t", "_", "0", "1", "}">>

CommandTemplates == {Tp_quoted, Tp_plain, Tp_missing, Tp_script, Tp_all, <<>>}

\* Inputs named as a derived key is: script, output_dir, t_flag.
N_t_flag == <<"t", "_", "f", "l", "a", "g">>

NamesTaken == {K_script, K_out, N_t_flag}

\* The template  {script} {output_dir} {t_flag}
Tp_taken == <<"{">> \o K_script \o <<"}", SP, "{">> \o K_out \o <<"}", SP, "{">>
            \o N_t_flag \o <<"}">>

CompilerTools ==
    {ToolSpec(<<"A">>, "module", r, None, ins) : r \in ModuleRunners, ins \in CompilerInputs}
    \cup
    {ToolSpec(<<"A">>, "command", r, None, ins) : r \in CommandTemplates, ins \in CompilerInputs}
    \cup
    {ToolSpec(<<"A">>, "command", Tp_taken, Str(<<"z">>),
              <<InputSpec(n, "string", <<>>, FALSE), InputSpec(N_t, "toggle", <<>>, FALSE)>>) :
        n \in NamesTaken}

CompilerInit ==
    /\ RunInit
    /\ supervisor = "QProcRunner"
    /\ pr_cmd = "prog"
    /\ tool \in CompilerTools
    /\ fields = set_tool(tool)
    /\ output_dir = <<>>
    /\ ran = NoRun
    /\ exported = NoRecord
    /\ imported = NoImport
    /\ NoWindow

CompilerNext ==
    \/ \E i \in 1..2 : \E w \in WidgetStates(tool.inputs[i]) : User_edit(i, w)
    \/ \E t \in OutTexts : User_edit_output_dir(t)
    \/ ToolForm_on_run_values

CompilerSpec == CompilerInit /\ [][CompilerNext]_vars

\* ------------------------------------------------------------ the codec
\* A parameter file: the tool name of its meta section (None when the file
\* has none) and its values. json.dump and json.load keep a str, a bool, an
\* int and a list of str as they are.
File(meta_tool, values) == [tool |-> meta_tool, values |-> values]

\* _params_dict
params_dict(t, f, out) ==
    File(Str(t.name),
         SelectSeq(collect_values(t, f, out), LAMBDA it : it.k = <<>> \/ it.k[1] # "_"))

\* _apply_params, the items of a multienum or list value.
items_of(v) ==
    CASE v.py = "str"  -> stripped_nonempty(split(v.s, ","))
      [] v.py = "list" -> v.l
      [] OTHER         -> <<>>

\* str(v or "")
str_or_empty(v) == IF truthy(v) THEN str(v) ELSE <<>>

\* _apply_params, the try block for one input: the widget after it, or the
\* exception that the except branch logs.
apply_value(spec, w, v) ==
    CASE spec.type \in {"string", "file", "folder", "password"} ->
            Ok([w EXCEPT !.text = str_or_empty(v)])
      [] spec.type = "int" ->
            IF int(v).ok THEN Ok([w EXCEPT !.value = int(v).val]) ELSE int(v)
      [] spec.type = "enum" ->
            Ok(IF findText(spec.choices, str(v)) # 0
               THEN [w EXCEPT !.row = findText(spec.choices, str(v))]
               ELSE w)
      [] spec.type = "multienum" ->
            Ok([w EXCEPT !.rows = setCheckedItems(spec.choices, items_of(v))])
      [] spec.type = "toggle" ->
            Ok([w EXCEPT !.checked = v = Bool(TRUE) \/ lower(strip(str(v))) \in OnWords])
      [] spec.type = "list" ->
            Ok([w EXCEPT !.text = join("NL", items_of(v))])
      [] OTHER ->
            Ok([w EXCEPT !.text = str_or_empty(v)])

\* _apply_params, the loop body with an input the record does not name set
\* back to its initial widget.
apply_param_reset(spec, w, values) ==
    IF spec.name \notin Keys(values) THEN set_tool_widget(spec)
    ELSE IF apply_value(spec, w, Get(values, spec.name)).ok
         THEN apply_value(spec, w, Get(values, spec.name)).val
         ELSE w

\* _apply_params, the loop body for one input: its widget afterwards.
apply_param(spec, w, values) ==
    IF spec.name \notin Keys(values) THEN w
    ELSE IF apply_value(spec, w, Get(values, spec.name)).ok
         THEN apply_value(spec, w, Get(values, spec.name)).val
         ELSE w

\* The place of the input of that name among the inputs of the tool.
IndexOf(t, name) == CHOOSE i \in 1..Len(t.inputs) : t.inputs[i].name = name

\* _apply_params with the loop left at the first value that raises.
apply_params_abort(t, f, values) ==
    [name \in DOMAIN f |->
        IF \E j \in 1..(IndexOf(t, name) - 1) :
              /\ t.inputs[j].name \in Keys(values)
              /\ ~apply_value(t.inputs[j], f[t.inputs[j].name],
                              Get(values, t.inputs[j].name)).ok
        THEN f[name]
        ELSE apply_param(t.inputs[IndexOf(t, name)], f[name], values)]

\* _apply_params: self.fields afterwards.
apply_params(t, f, values) ==
    [name \in DOMAIN f |->
        apply_param(t.inputs[CHOOSE i \in 1..Len(t.inputs) : t.inputs[i].name = name],
                    f[name], values)]

\* _apply_params: the inputs whose value raised, as the log names them.
apply_log(t, f, values) ==
    SelectSeq([i \in 1..Len(t.inputs) |-> t.inputs[i].name],
              LAMBDA name :
                /\ name \in Keys(values)
                /\ ~apply_value(t.inputs[CHOOSE i \in 1..Len(t.inputs) : t.inputs[i].name = name],
                                f[name], Get(values, name)).ok)

\* _export_params, with a file name chosen in the dialog.
ToolForm_export_params ==
    /\ tool # NoTool
    /\ exported' = [written |-> TRUE, file |-> params_dict(tool, fields, output_dir)]
    /\ status' = "Exported parameters"
    /\ UNCHANGED <<winVars, stop_result, supervisor, os_name, run_btn, stop_btn, pending_cmd,
                   start_timers,
                   runner, requests, q_state, procVars, children, events, sig_log,
                   tool, fields, output_dir, ran, imported>>

\* _import_params, the guard left out: the question is never asked.
tool_mismatch_never(file, t) == FALSE

\* _import_params, the guard: the question is asked.
tool_mismatch(file, t) ==
    LET meta_tool == strip(str_or_empty(file.tool))
        cur_tool  == strip(t.name)
    IN  meta_tool # <<>> /\ meta_tool # cur_tool

\* _import_params of a file with a str or no tool name; ans is the answer
\* to "Apply anyway?".
ToolForm_import_params(file, ans) ==
    /\ tool # NoTool
    /\ IF tool_mismatch(file, tool) /\ ans # "Yes"
       THEN /\ imported' = [called |-> TRUE, file |-> file, asked |-> TRUE, answer |-> ans,
                            applied |-> FALSE, before |-> fields, log |-> <<>>]
            /\ UNCHANGED <<fields, status>>
       ELSE /\ imported' = [called |-> TRUE, file |-> file,
                            asked |-> tool_mismatch(file, tool),
                            answer |-> IF tool_mismatch(file, tool) THEN ans ELSE "",
                            applied |-> TRUE, before |-> fields,
                            log |-> apply_log(tool, fields, file.values)]
            /\ fields' = apply_params(tool, fields, file.values)
            /\ status' = "Imported parameters"
    /\ UNCHANGED <<winVars, stop_result, supervisor, os_name, run_btn, stop_btn, pending_cmd,
                   start_timers,
                   runner, requests, q_state, procVars, children, events, sig_log,
                   tool, output_dir, ran, exported>>

\* ------------------------------------------------------------ the tools imported into
N_e  == <<"e">>
N_m  == <<"m">>
N_l  == <<"l">>
N_n  == <<"n">>
N_zz == <<"z", "z">>
N_u  == <<"_", "u">>

T_a  == <<"a">>
T_b  == <<"b">>
T_ab == <<"a", ",", "b">>

\* What a toggle is given as its default or by a file: nothing, a bool, an
\* int, a word for on in capitals or with a blank before it, a word for off.
ToggleValues ==
    {None, Bool(TRUE), Bool(FALSE), IntV(1), Str(<<"Y", "e", "s">>), Str(<<SP, "o", "n">>),
     Str(<<"n", "o">>)}

ToggleDefaults == {None, Str(<<SP, "o", "n">>), Str(<<"n", "o">>)}

\* A tool with a line edit and a check box, one with a combo box and a
\* CheckableComboBox (one choice holds a comma), one with a spin box and a
\* list, and tools with two check boxes, the first of a name that begins
\* with an underscore, the second with a default.
CodecInputs ==
    { <<InputSpec(N_s, "string", <<>>, FALSE), InputSpec(N_t, "toggle", <<>>, FALSE)>>,
      <<InputSpec(N_e, "enum", <<T_a, T_b>>, FALSE),
        InputSpec(N_m, "multienum", <<T_a, T_ab>>, FALSE)>>,
      <<InputSpec(N_n, "int", <<>>, FALSE), InputSpec(N_l, "list", <<>>, FALSE)>> }
    \cup
    { <<InputSpec(N_u, "toggle", <<>>, FALSE),
        [InputSpec(N_t, "toggle", <<>>, FALSE) EXCEPT !.default = d]>> : d \in ToggleDefaults }

CodecTools == {ToolSpec(T_a, "module", <<"m", ":", "f">>, None, ins) : ins \in CodecInputs}

\* Tool names found in the files imported: none, the tool's, the tool's
\* with a blank before it, another tool's, the empty one.
FileTools == {None, Str(T_a), Str(<<SP>> \o T_a), Str(T_b), Str(<<>>)}

\* Values found in the files imported.
FileValues == {Str(T_a), Str(T_ab), Str(<<"x">>), Bool(TRUE), IntV(12), ListV(<<T_a, T_b>>)}

\* The values a file gives to an input.
ValuesFor(spec) == IF spec.type = "toggle" THEN ToggleValues ELSE FileValues

\* The files imported that were written by hand: files of every tool name
\* that set the first input to b, and files without a tool name that name
\* the first input, or the second input and a key that is no input, or
\* both inputs.
HandFiles(t) ==
    {File(mt, <<Item(t.inputs[1].name, Str(T_b))>>) : mt \in FileTools}
    \cup
    {File(None, <<Item(t.inputs[1].name, v)>>) : v \in ValuesFor(t.inputs[1])}
    \cup
    {File(None, <<Item(N_zz, v), Item(t.inputs[2].name, v)>>) : v \in ValuesFor(t.inputs[2])}
    \cup
    {File(None, <<Item(t.inputs[1].name, v), Item(t.inputs[2].name, Str(T_b))>>) :
        v \in {Str(<<"x">>), IntV(12)}}

ImportFiles == HandFiles(tool) \cup (IF exported.written THEN {exported.file} ELSE {})

\* The answers the question can get; it is asked on a mismatch only.
Answers(file) == IF tool_mismatch(file, tool) THEN {"Yes", "No"} ELSE {"Yes"}

CodecInit ==
    /\ RunInit
    /\ supervisor = "QProcRunner"
    /\ pr_cmd = "prog"
    /\ tool \in CodecTools
    /\ fields = set_tool(tool)
    /\ output_dir = <<>>
    /\ ran = NoRun
    /\ exported = NoRecord
    /\ imported = NoImport
    /\ NoWindow

\* What the user puts into the widgets of these tools.
CodecWidgetStates(spec) ==
    IF spec.type = "string"
    THEN {Widget(t, 0, FALSE, 0, {}) : t \in {<<>>, <<"a", SP, "b">>, <<SP, "a">>}}
    ELSE WidgetStates(spec)

CodecNext ==
    \/ \E i \in 1..2 : \E w \in CodecWidgetStates(tool.inputs[i]) : User_edit(i, w)
    \/ \E t \in OutTexts : User_edit_output_dir(t)
    \/ ToolForm_export_params
    \/ \E file \in ImportFiles : \E ans \in Answers(file) : ToolForm_import_params(file, ans)

CodecSpec == CodecInit /\ [][CodecNext]_vars

\* ------------------------------------------------------------ load_config
K_name        == <<"n", "a", "m", "e">>
K_type        == <<"t", "y", "p", "e">>
K_label       == <<"l", "a", "b", "e", "l">>
K_default     == <<"d", "e", "f", "a", "u", "l", "t">>
K_choices     == <<"c", "h", "o", "i", "c", "e", "s">>
K_required    == <<"r", "e", "q", "u", "i", "r", "e", "d">>
K_readonly    == <<"r", "e", "a", "d", "o", "n", "l", "y">>
K_runner      == <<"r", "u", "n", "n", "e", "r">>
K_placeholder == <<"p", "l", "a", "c", "e", "h", "o", "l", "d", "e", "r">>
K_help        == <<"h", "e", "l", "p">>
K_color       == <<"c", "o", "l", "o", "r">>

\* The fields of the dataclass InputSpec.
InputSpecFields ==
    {K_name, K_type, K_label, K_default, K_choices, K_required, K_readonly}

\* The fields of a tool that load_config reads with t.get; inputs is the
\* field inputs of RawTool.
ToolSpecFields == {K_name, K_runner, K_script}

\* A tool of the JSON array: its fields but inputs as a dict of str values,
\* and its inputs, a list of dicts of str values. The records of the model
\* hold no runner_mode, output_dir_optional or notes, and no type, label,
\* choices, required or readonly of an input.
RawTool(d, inputs) == [d |-> d, inputs |-> inputs]

\* load_config, InputSpec(**i) after i.pop("placeholder", None).
load_input(i) ==
    LET j == SelectSeq(i, LAMBDA it : it.k # K_placeholder)
    IN  IF \E k \in Keys(j) : k \notin InputSpecFields
        THEN Raise("TypeError: unexpected keyword argument",
                   CHOOSE k \in Keys(j) : k \notin InputSpecFields)
        ELSE IF K_name \notin Keys(j)
        THEN Raise("TypeError: missing required argument", K_name)
        ELSE Ok([InputSpec(Get(j, K_name).s, "string", <<>>, FALSE)
                    EXCEPT !.default = IF K_default \in Keys(j) THEN Get(j, K_default)
                                       ELSE None])

RECURSIVE load_inputs(_)
load_inputs(raw) ==
    IF raw = <<>> THEN Ok(<<>>)
    ELSE LET head == load_input(raw[1])
         IN  IF ~head.ok THEN head
             ELSE LET rest == load_inputs(Tail(raw))
                  IN  IF rest.ok THEN Ok(<<head.val>> \o rest.val) ELSE rest

\* load_config, the body of the loop over the tools of the array.
load_tool(t) ==
    LET inputs == load_inputs(t.inputs)
    IN  IF ~inputs.ok THEN inputs
        ELSE Ok(ToolSpec(IF K_name \in Keys(t.d) THEN Get(t.d, K_name).s
                         ELSE <<"U", "n", "t", "i", "t", "l", "e", "d">>,
                         "module",
                         IF K_runner \in Keys(t.d) THEN Get(t.d, K_runner).s ELSE <<>>,
                         IF K_script \in Keys(t.d) THEN Get(t.d, K_script) ELSE None,
                         inputs.val))

\* load_config of a file that exists and holds a JSON array: the tools, or
\* the exception raised.
RECURSIVE load_config(_)
load_config(raw) ==
    IF raw = <<>> THEN Ok(<<>>)
    ELSE LET head == load_tool(raw[1])
         IN  IF ~head.ok THEN head
             ELSE LET rest == load_config(Tail(raw))
                  IN  IF rest.ok THEN Ok(<<head.val>> \o rest.val) ELSE rest

\* ------------------------------------------------------------ MainWindow
MaxTools  == 2     \* tools in the list
MaxTimers == 1     \* set_tool calls queued by QTimer.singleShot(0, ...)
MaxCopies == 1     \* times " (copy)" is put after a name by _dup_tool

Copy == <<SP, "(", "c", "o", "p", "y", ")">>

\* _current_tool_index
current_tool_index(ts, row) == IF row \in 1..Len(ts) THEN row ELSE 0

\* _reload_list: the current row afterwards. The items of the list are the
\* names of old, the list is cleared (no current row) and filled from new,
\* and the first row with the name of the former current item is made
\* current; the signals of the list are blocked.
reload_list(old, row, new) ==
    LET current_name == IF row \in 1..Len(old) THEN old[row].name ELSE <<>>
    IN  IF current_name # <<>> /\ \E i \in 1..Len(new) : new[i].name = current_name
        THEN CHOOSE i \in 1..Len(new) :
                /\ new[i].name = current_name
                /\ \A j \in 1..(i - 1) : new[j].name # current_name
        ELSE 0

\* A set_tool call queued: with the tool bound when it was queued
\* (_apply_selection), or with the row whose tool is read when it fires
\* (_edit_tool).
Queued(kind, t, row) == [kind |-> kind, tool |-> t, row |-> row]

\* QListWidget.setCurrentRow(row) after _reload_list left the list at
\* reloaded: itemSelectionChanged starts the selection timer when the row
\* changes.
setCurrentRow(reloaded, row) ==
    /\ list_row' = row
    /\ select_timer' = (select_timer \/ row # reloaded)

\* The frame of the window actions.
WindowFrame ==
    UNCHANGED <<supervisor, os_name, formVars, q_state, procVars, children, events,
                sig_log, output_dir, ran, exported, imported, stop_result>>

\* The user picks a row of the list.
MainWindow_on_select(row) ==
    /\ row \in 1..Len(tools)
    /\ row # list_row
    /\ list_row' = row
    /\ select_timer' = TRUE
    /\ UNCHANGED <<tools, set_tool_timers, last_applied_row, tool, fields>>
    /\ loaded' = NoLoad
    /\ WindowFrame

\* _apply_selection, when the selection timer fires.
MainWindow_apply_selection ==
    /\ select_timer
    /\ select_timer' = FALSE
    /\ IF current_tool_index(tools, list_row) = 0
       THEN /\ tool' = NoTool
            /\ fields' = set_tool(NoTool)
            /\ last_applied_row' = 0
            /\ UNCHANGED set_tool_timers
       ELSE IF list_row = last_applied_row
       THEN UNCHANGED <<tool, fields, last_applied_row, set_tool_timers>>
       ELSE /\ Len(set_tool_timers) < MaxTimers
            /\ set_tool_timers' = Append(set_tool_timers, Queued("tool", tools[list_row], 0))
            /\ last_applied_row' = list_row
            /\ UNCHANGED <<tool, fields>>
    /\ UNCHANGED <<tools, list_row>>
    /\ loaded' = NoLoad
    /\ WindowFrame

\* form.set_tool, when a QTimer.singleShot(0, ...) fires.
MainWindow_set_tool_timer ==
    /\ set_tool_timers # <<>>
    /\ set_tool_timers' = Tail(set_tool_timers)
    /\ LET q == Head(set_tool_timers)
       IN  IF q.kind = "tool"
           THEN tool' = q.tool /\ fields' = set_tool(q.tool)
           ELSE IF q.row \in 1..Len(tools)
           THEN tool' = tools[q.row] /\ fields' = set_tool(tools[q.row])
           ELSE UNCHANGED <<tool, fields>>
    /\ UNCHANGED <<tools, list_row, select_timer, last_applied_row>>
    /\ loaded' = NoLoad
    /\ WindowFrame

\* _add_tool, the dialog accepted with tool t.
MainWindow_add_tool(t) ==
    /\ Len(tools) < MaxTools
    /\ tools' = Append(tools, t)
    /\ list_row' = reload_list(tools, list_row, tools')
    /\ UNCHANGED <<select_timer, set_tool_timers, last_applied_row, tool, fields>>
    /\ loaded' = NoLoad
    /\ WindowFrame

\* _edit_tool, the dialog accepted with tool t.
MainWindow_edit_tool(t) ==
    /\ current_tool_index(tools, list_row) # 0
    /\ Len(set_tool_timers) < MaxTimers
    /\ tools' = [tools EXCEPT ![list_row] = t]
    /\ last_applied_row' = 0
    /\ setCurrentRow(reload_list(tools, list_row, tools'), list_row)
    /\ set_tool_timers' = Append(set_tool_timers, Queued("row", NoTool, list_row))
    /\ UNCHANGED <<tool, fields>>
    /\ loaded' = NoLoad
    /\ WindowFrame

\* _dup_tool
MainWindow_dup_tool ==
    /\ current_tool_index(tools, list_row) # 0
    /\ Len(tools) < MaxTools
    /\ Len(tools[list_row].name) <= 1 + (MaxCopies - 1) * Len(Copy)
    /\ tools' = Append(tools, [tools[list_row] EXCEPT !.name = @ \o Copy])
    /\ setCurrentRow(reload_list(tools, list_row, tools'), Len(tools'))
    /\ UNCHANGED <<set_tool_timers, last_applied_row, tool, fields>>
    /\ loaded' = NoLoad
    /\ WindowFrame

\* _del_tool, the question answered with Yes.
MainWindow_del_tool ==
    /\ current_tool_index(tools, list_row) # 0
    /\ tools' = SubSeq(tools, 1, list_row - 1) \o SubSeq(tools, list_row + 1, Len(tools))
    /\ list_row' = reload_list(tools, list_row, tools')
    /\ UNCHANGED <<select_timer, set_tool_timers, last_applied_row, tool, fields>>
    /\ loaded' = NoLoad
    /\ WindowFrame

\* _move_tool
MainWindow_move_tool(delta) ==
    /\ current_tool_index(tools, list_row) # 0
    /\ list_row + delta \in 1..Len(tools)
    /\ tools' = [tools EXCEPT ![list_row] = tools[list_row + delta],
                              ![list_row + delta] = tools[list_row]]
    /\ setCurrentRow(reload_list(tools, list_row, tools'), list_row + delta)
    /\ UNCHANGED <<set_tool_timers, last_applied_row, tool, fields>>
    /\ loaded' = NoLoad
    /\ WindowFrame

\* _load_config_file with a file that holds the JSON array raw.
MainWindow_load_config_file(raw) ==
    /\ loaded' = [called |-> TRUE, raw |-> raw, ok |-> load_config(raw).ok]
    /\ IF load_config(raw).ok
       THEN /\ tools' = load_config(raw).val
            /\ IF tools' # <<>>
               THEN setCurrentRow(reload_list(tools, list_row, tools'), 1)
               ELSE /\ list_row' = reload_list(tools, list_row, tools')
                    /\ UNCHANGED select_timer
       ELSE UNCHANGED <<tools, list_row, select_timer>>
    /\ UNCHANGED <<set_tool_timers, last_applied_row, tool, fields>>
    /\ WindowFrame

\* ------------------------------------------------------------ the tools listed
T_mf == <<"m", ":", "f">>
T_mg == <<"m", ":", "g">>

\* The tools the editor dialog returns: two of one name.
EditorTools ==
    {ToolSpec(T_a, "module", T_mf, None, <<>>), ToolSpec(T_a, "module", T_mg, None, <<>>)}

\* The config files loaded: a tool b with an input s; the same with a field
\* color of the tool; with the legacy field placeholder of the input; with
\* a field help of the input; and the empty array.
RawConfigs ==
    { << RawTool(<<Item(K_name, Str(T_b)), Item(K_runner, Str(T_mg))>>,
                 << <<Item(K_name, Str(N_s))>> >>) >>,
      << RawTool(<<Item(K_name, Str(T_b)), Item(K_runner, Str(T_mg)),
                   Item(K_color, Str(T_a))>>,
                 << <<Item(K_name, Str(N_s))>> >>) >>,
      << RawTool(<<Item(K_name, Str(T_b)), Item(K_runner, Str(T_mg))>>,
                 << <<Item(K_name, Str(N_s)), Item(K_placeholder, Str(T_a))>> >>) >>,
      << RawTool(<<Item(K_name, Str(T_b)), Item(K_runner, Str(T_mg))>>,
                 << <<Item(K_name, Str(N_s)), Item(K_help, Str(T_a))>> >>) >>,
      <<>> }

\* MainWindow.__init__: the list is filled and, if it is not empty, its
\* first row is made current.
WindowInit ==
    /\ RunInit
    /\ supervisor = "QProcRunner"
    /\ pr_cmd = "prog"
    /\ tool = NoTool
    /\ fields = <<>>
    /\ output_dir = <<>>
    /\ ran = NoRun
    /\ exported = NoRecord
    /\ imported = NoImport
    /\ tools \in {<<>>} \cup {<<t>> : t \in EditorTools}
    /\ list_row = IF tools = <<>> THEN 0 ELSE 1
    /\ select_timer = (tools # <<>>)
    /\ set_tool_timers = <<>>
    /\ last_applied_row = 0
    /\ loaded = NoLoad

WindowNext ==
    \/ \E row \in 1..MaxTools : MainWindow_on_select(row)
    \/ MainWindow_apply_selection
    \/ MainWindow_set_tool_timer
    \/ \E t \in EditorTools : MainWindow_add_tool(t)
    \/ \E t \in EditorTools : MainWindow_edit_tool(t)
    \/ MainWindow_dup_tool
    \/ MainWindow_del_tool
    \/ \E delta \in {-1, 1} : MainWindow_move_tool(delta)
    \/ \E raw \in RawConfigs : MainWindow_load_config_file(raw)

WindowSpec == WindowInit /\ [][WindowNext]_vars

\* ------------------------------------------------------------ observation
\* The lines of the lineReady events of run r, in the order of emission.
RECURSIVE LinesOf(_)
LinesOf(evs) ==
    IF evs = <<>> THEN <<>>
    ELSE IF Head(evs).kind = "line"
         THEN <<Head(evs).line>> \o LinesOf(Tail(evs))
         ELSE LinesOf(Tail(evs))

LineEvents(r) == LinesOf(events[r])

FinishedCount(r) == Cardinality({i \in 1..Len(events[r]) : events[r][i].kind = "finished"})

IsPrefix(s, t) == Len(s) <= Len(t) /\ SubSeq(t, 1, Len(s)) = s

\* What the whole merged stream of run r reads as, as text.
StreamText(r) ==
    [i \in 1..Len(children[r].written) |->
        IF children[r].written[i] = "xFF" THEN "uFFFD" ELSE children[r].written[i]]

\* Run r was started and its supervisor has nothing left to do for it.
RunOver(r) ==
    \/ supervisor = "QProcRunner" /\ q_state[r] = "NotRunning"
    \/ supervisor = "ProcRunner" /\ r = PR /\ pr_pc = "done"

\* The start of run r failed: no child was spawned.
SpawnFailed(r) == RunOver(r) /\ ~children[r].spawned

InLog(r, sig) == \E i \in 1..Len(sig_log[r]) : sig_log[r][i] = sig

\* A stop has completed on the child of run r, which was running when the
\* stop reached it.
StopDoneOnRunning(r) ==
    \/ supervisor = "QProcRunner" /\ children[r].killed
    \/ supervisor = "ProcRunner" /\ stop_pc = "idle" /\ InLog(r, "soft")

\* ------------------------------------------------------------ claims
\* C1: every accepted start of a run yields exactly one finished event:
\* never more than one, and exactly one once the supervisor has nothing
\* left to do for the run (normal exit, cancellation, or launch failure).
C1_ExactlyOneFinished ==
    \A r \in Runs :
        /\ FinishedCount(r) <= 1
        /\ RunOver(r) => FinishedCount(r) = 1

\* C2: at most one child process is alive at any time.
C2_AtMostOneChild == Cardinality({r \in Runs : children[r].alive}) <= 1

\* C3: after a stop on a running child, the child is not alive; if it was
\* killed, the forced kill came after the soft interrupt and the grace
\* period; and the completion event of the run carries the child's exit
\* status (that of the kill, for a killed child).
C3_StopKillsAfterGrace ==
    \A r \in Runs :
        StopDoneOnRunning(r) =>
            /\ ~children[r].alive
            /\ children[r].killed =>
                  \E i \in 1..Len(sig_log[r]) :
                      /\ sig_log[r][i] = "grace"
                      /\ \E j \in 1..(i - 1) : sig_log[r][j] = "soft"
                      /\ \E k \in (i + 1)..Len(sig_log[r]) : sig_log[r][k] = "kill"
            /\ RunOver(r) =>
                  /\ events[r] # <<>>
                  /\ events[r][Len(events[r])].kind = "finished"
                  /\ events[r][Len(events[r])].code = children[r].rc

\* C4: every forced kill comes directly after a soft interrupt and a grace
\* period that ended with the child still alive.
C4_SoftGraceKillOrder ==
    \A r \in Runs : \A i \in 1..Len(sig_log[r]) :
        sig_log[r][i] = "kill" =>
            /\ i >= 3
            /\ sig_log[r][i - 1] = "grace"
            /\ sig_log[r][i - 2] = "soft"

\* C5: a run whose child could not be spawned has an error event followed
\* by a finished event with the sentinel code as its last two events.
C5_LaunchFailureReported ==
    \A r \in Runs :
        SpawnFailed(r) =>
            /\ Len(events[r]) >= 2
            /\ events[r][Len(events[r]) - 1].kind = "error"
            /\ events[r][Len(events[r])].kind = "finished"
            /\ events[r][Len(events[r])].code = Sentinel

\* C6: a finished event of a run whose child was spawned carries the exit
\* status collected from that child, and never the sentinel.
C6_SentinelOnlyUnspawned ==
    \A r \in Runs : \A i \in 1..Len(events[r]) :
        (events[r][i].kind = "finished" /\ children[r].spawned) =>
            /\ ~children[r].alive
            /\ events[r][i].code = children[r].rc
            /\ events[r][i].code # Sentinel

\* C7: when every accepted run request has had its run end, the form
\* accepts a new request: Run enabled, Stop disabled, no runner held.
C7_ReadyAfterRunEnds ==
    ( /\ supervisor = "QProcRunner"
      /\ requests > 0
      /\ start_timers = 0
      /\ Cardinality({r \in Runs : q_state[r] = "NotRunning"}) = requests )
    => (run_btn /\ ~stop_btn /\ runner = 0)

\* The line events evs are consecutive pieces of text, in order: each event
\* is the text up to the next newline (which it consumes) or, when it is not
\* empty, up to a point where a chunk of the stream ended.
RECURSIVE InArrivalOrder(_, _)
InArrivalOrder(evs, text) ==
    \/ evs = <<>>
    \/ /\ evs # <<>>
       /\ IsPrefix(Head(evs), text)
       /\ LET rest == SubSeq(text, Len(Head(evs)) + 1, Len(text))
          IN  \/ /\ rest # <<>>
                 /\ Head(rest) = "NL"
                 /\ InArrivalOrder(Tail(evs), Tail(rest))
              \/ /\ Head(evs) # <<>>
                 /\ InArrivalOrder(Tail(evs), rest)
              \/ /\ rest = <<>>
                 /\ Tail(evs) = <<>>

\* C8: the line events of a run carry the text of the merged stream in the
\* order of arrival: every event is the next piece of the stream after the
\* one before it, none is reordered, repeated or ahead of an earlier one.
C8_LinesInArrivalOrder ==
    \A r \in Runs : InArrivalOrder(LineEvents(r), StreamText(r))

\* C8 witness: a run has delivered two lines that differ, so that their
\* order shows in the events.
C8_Witness ==
    \E r \in Runs :
        /\ Len(LineEvents(r)) >= 2
        /\ LineEvents(r)[1] # LineEvents(r)[2]

\* C9: the line events of a run are the newline-delimited lines of the
\* merged stream, one event per line, whatever the chunking.
C9_OneLinePerEvent ==
    \A r \in Runs : IsPrefix(LineEvents(r), splitlines(StreamText(r)))

\* C10: the finished event of a run is the last event of that run.
C10_FinishedIsLast ==
    \A r \in Runs : \A i \in 1..Len(events[r]) :
        events[r][i].kind = "finished" => i = Len(events[r])

\* C10 witness: a run has ended with line events before its finished event.
C10_Witness ==
    \E r \in Runs :
        /\ Len(events[r]) >= 2
        /\ events[r][Len(events[r])].kind = "finished"
        /\ events[r][Len(events[r]) - 1].kind = "line"

\* ------------------------------------------------------------ claims C11..C17
\* The value bag of the form as it stands.
FormValues == collect_values(tool, fields, output_dir)

InputNames(t) == {t.inputs[i].name : i \in 1..Len(t.inputs)}

\* The names between braces in a template.
TemplateKeys(t) ==
    {SubSeq(t, i + 1, j - 1) : <<i, j>> \in
        {p \in (1..Len(t)) \X (1..Len(t)) :
            /\ p[1] < p[2]
            /\ t[p[1]] = "{"
            /\ t[p[2]] = "}"
            /\ \A k \in (p[1] + 1)..(p[2] - 1) : t[k] \notin {"{", "}"}}}

ToggleNames(t) == {t.inputs[i].name : i \in {j \in 1..Len(t.inputs) : t.inputs[j].type = "toggle"}}

Derived(k) == {k \o <<"_", "f", "l", "a", "g">>, k \o <<"_", "y", "n">>, k \o <<"_", "0", "1">>}

\* The placeholders a template may use: the keys of the value bag and the
\* derived keys.
DeclaredKeys(t, vals) ==
    Keys(vals) \cup {K_python, K_python_u, K_script, K_out}
        \cup UNION {Derived(k) : k \in ToggleNames(t)}

\* The target does not split on its first ":" into two non-empty parts.
MalformedTarget(t) == find(t, ":") \in {0, 1, Len(t)}

EmptyRequired(t, vals) ==
    \E i \in 1..Len(t.inputs) :
        /\ t.inputs[i].required
        /\ Get(vals, t.inputs[i].name) \in {None, Str(<<>>)}

\* The request fails validation.
InvalidRequest(t, vals) ==
    \/ t.runner_mode = "module" /\ MalformedTarget(t.runner)
    \/ t.runner_mode = "command" /\ t.runner = <<>>
    \/ t.runner_mode = "command" /\ ~(TemplateKeys(t.runner) \subseteq DeclaredKeys(t, vals))
    \/ EmptyRequired(t, vals)

\* C11: a step taken while the form holds a request that fails validation
\* starts nothing and leaves the Run and Stop buttons and the status as they
\* are, and a run requested in it shows its message box before it returns.
C11_InvalidRunRejected ==
    [][InvalidRequest(tool, FormValues) =>
          /\ UNCHANGED <<status, run_btn, stop_btn, start_timers, pending_cmd>>
          /\ ran' # ran => ran'.dialog # ""]_vars

\* C13: in module mode a compilation whose target does not split on its
\* first ":" into two non-empty parts fails.
C13_MalformedTargetRejected ==
    (ran.built /\ tool.runner_mode = "module" /\ MalformedTarget(tool.runner))
        => ~ran.result.ok

\* The entries of a value bag other than the reserved output-directory key.
BagEntries(vals) == SelectSeq(vals, LAMBDA it : it.k # K_output_dir)

\* C12: for a valid module-mode tool the argument vector is the interpreter,
\* -u, -m, the module path, --func, the entry name, then the two tokens
\* --<name> and str(value) of every value-bag entry but the reserved one, in
\* the order of the bag, then --output_dir and the directory as the last two
\* tokens exactly when the reserved value is present and not empty.
C12_ModuleArgv ==
    (ran.built /\ tool.runner_mode = "module" /\ ~MalformedTarget(tool.runner)) =>
        LET cmd   == ran.result.val
            colon == find(tool.runner, ":")
            bag   == BagEntries(ran.vals)
            dir   == Get(ran.vals, K_output_dir)
            has   == dir \notin {None, Str(<<>>)}
        IN  /\ ran.result.ok
            /\ Len(cmd) = 6 + 2 * Len(bag) + (IF has THEN 2 ELSE 0)
            /\ SubSeq(cmd, 1, 6) =
                  <<py, <<"-", "u">>, <<"-", "m">>, SubSeq(tool.runner, 1, colon - 1),
                    <<"-", "-", "f", "u", "n", "c">>,
                    SubSeq(tool.runner, colon + 1, Len(tool.runner))>>
            /\ \A i \in 1..Len(bag) :
                  /\ cmd[5 + 2 * i] = <<"-", "-">> \o bag[i].k
                  /\ cmd[6 + 2 * i] = str(bag[i].v)
            /\ has => /\ cmd[Len(cmd) - 1] = <<"-", "-">> \o K_out
                      /\ cmd[Len(cmd)] = dir.s

\* C12 witness: a module-mode run with a text value, a checked toggle and an
\* output folder.
C12_Witness ==
    /\ ran.built
    /\ tool.runner = <<"m", ":", "f">>
    /\ Get(ran.vals, N_s) = Str(<<"a", SP, "b">>)
    /\ Get(ran.vals, N_t) = Bool(TRUE)
    /\ Get(ran.vals, K_output_dir) = Str(<<"o">>)

\* The placeholders of the template that are neither keys of the value bag
\* nor derived keys.
Undeclared(t, vals) == TemplateKeys(t.runner) \ DeclaredKeys(t, vals)

\* C14: in command-line mode a non-empty template that references declared
\* placeholders only compiles, for every value bag, to as many tokens as the
\* substituted string has shell words.
C14_DeclaredTemplateCompiles ==
    (ran.built /\ tool.runner_mode = "command" /\ tool.runner # <<>>
        /\ Undeclared(tool, ran.vals) = {}) =>
        /\ ran.result.ok
        /\ Len(ran.result.val) =
              Len(shlex_split(format(tool.runner, ran.table).val).val)

\* C15: in command-line mode a template that references a placeholder that
\* is neither a value-bag key nor a derived key fails to compile, and the
\* error names a placeholder that is missing.
C15_UndeclaredPlaceholderFails ==
    (ran.built /\ tool.runner_mode = "command" /\ Undeclared(tool, ran.vals) # {}) =>
        /\ ~ran.result.ok
        /\ ran.dialog = "Build Error"
        /\ ran.result.exc = "ValueError: Missing placeholder in template"
        /\ ran.result.arg \in Undeclared(tool, ran.vals)

\* C15 witness: the template {s} {x} was compiled with a value for s.
C15_Witness ==
    /\ ran.built
    /\ tool.runner = Tp_missing
    /\ Get(ran.vals, N_s) = Str(<<"a">>)
    /\ ran.result.arg = N_x

\* C16: a placeholder the template encloses in quotes reaches the argument
\* vector as one argument equal to the value.
C16_QuotedValueOneArgument ==
    (ran.built /\ tool.runner = Tp_quoted) =>
        /\ ran.result.ok
        /\ ran.result.val = <<<<"-", "-", "n">>, Get(ran.vals, N_s).s>>

\* C17: the placeholders hold x_flag, x_yn and x_01 for every toggle x, with
\* --x, yes, 1 when x is true and --no-x, no, 0 when it is false, and none of
\* the three for an input of another kind.
C17_TogglePlaceholders ==
    ran.built =>
        \A i \in 1..Len(tool.inputs) :
            LET x  == tool.inputs[i].name
                on == Get(ran.vals, x) = Bool(TRUE)
            IN  IF tool.inputs[i].type = "toggle"
                THEN /\ Derived(x) \subseteq Keys(ran.table)
                     /\ Get(ran.table, x \o <<"_", "f", "l", "a", "g">>) =
                           Str(IF on THEN <<"-", "-">> \o x ELSE <<"-", "-", "n", "o", "-">> \o x)
                     /\ Get(ran.table, x \o <<"_", "y", "n">>) =
                           Str(IF on THEN <<"y", "e", "s">> ELSE <<"n", "o">>)
                     /\ Get(ran.table, x \o <<"_", "0", "1">>) =
                           Str(IF on THEN <<"1">> ELSE <<"0">>)
                ELSE Derived(x) \cap Keys(ran.table) = {}

\* C17 witness: a command was built with the toggle checked.
C17_Witness ==
    /\ ran.built
    /\ tool.runner = Tp_all
    /\ Get(ran.vals, N_t) = Bool(TRUE)
    /\ ran.result.ok

C29_DerivedKeysWin ==
    ran.built =>
        LET dir == Get(ran.vals, K_output_dir)
        IN  /\ Get(ran.table, K_python) = Str(py)
            /\ Get(ran.table, K_python_u) = Str(py \o <<SP, "-", "u">>)
            /\ Get(ran.table, K_script) = (IF tool.script \in {None, Str(<<>>)}
                                           THEN Str(<<>>) ELSE tool.script)
            /\ Get(ran.table, K_out) = (IF dir = None THEN Str(<<>>) ELSE dir)
            /\ \A i \in 1..Len(tool.inputs) :
                  LET x  == tool.inputs[i].name
                      on == truthy(Get(ran.vals, x))
                  IN  tool.inputs[i].type = "toggle" =>
                        /\ Get(ran.table, x \o <<"_", "f", "l", "a", "g">>) =
                              Str(IF on THEN <<"-", "-">> \o x
                                  ELSE <<"-", "-", "n", "o", "-">> \o x)
                        /\ Get(ran.table, x \o <<"_", "y", "n">>) =
                              Str(IF on THEN <<"y", "e", "s">> ELSE <<"n", "o">>)
                        /\ Get(ran.table, x \o <<"_", "0", "1">>) =
                              Str(IF on THEN <<"1">> ELSE <<"0">>)

\* C29 witness: the input named t_flag holds "a" and the command built from
\* {script} {output_dir} {t_flag} is z o --t.
C29_Witness ==
    /\ ran.built
    /\ N_t_flag \in InputNames(tool)
    /\ Get(ran.vals, N_t_flag) = Str(<<"a">>)
    /\ Get(ran.vals, N_t) = Bool(TRUE)
    /\ ran.result = Ok(<< <<"z">>, <<"o">>, <<"-", "-", "t">> >>)

\* ------------------------------------------------------------ claims C18..C20
\* C18: importing the file of an export into the same tool gives back the
\* value bag that was exported.
C18_ExportImportRoundTrip ==
    (imported.applied /\ exported.written /\ imported.file = exported.file) =>
        BagEntries(FormValues) = exported.file.values

\* C19: when the tool name a file declares differs from the name of the tool
\* shown, the question is asked, and without the answer yes no field changes.
C19_MismatchAsksFirst ==
    (imported.called /\ imported.file.tool.py = "str"
        /\ imported.file.tool.s # tool.name) =>
        /\ imported.asked
        /\ imported.answer # "Yes" => (~imported.applied /\ fields = imported.before)

\* C19 as amended: when the file declares a tool name that is not blank and
\* differs, blanks at the ends aside, from the name of the tool shown, the
\* question is asked, and without the answer yes no field changes.
C19_NonBlankMismatchAsksFirst ==
    (imported.called /\ imported.file.tool.py = "str"
        /\ strip(imported.file.tool.s) # <<>>
        /\ strip(imported.file.tool.s) # strip(tool.name)) =>
        /\ imported.asked
        /\ imported.answer # "Yes" => (~imported.applied /\ fields = imported.before)

\* C19 witness: a file of tool b that sets the first input was refused at
\* the question, on a form whose first input holds something else.
C19_Witness ==
    /\ imported.called
    /\ imported.file.tool = Str(T_b)
    /\ imported.asked
    /\ imported.answer = "No"
    /\ fields # apply_params(tool, fields, imported.file.values)

\* C20: an import changes no field of an input the file does not name, and
\* the keys of the file that are no input of the tool change nothing.
C20_ImportByNameOnly ==
    imported.applied =>
        /\ DOMAIN fields = InputNames(tool)
        /\ \A name \in InputNames(tool) :
              name \notin Keys(imported.file.values) => fields[name] = imported.before[name]
        /\ fields = apply_params(tool, imported.before,
                                 SelectSeq(imported.file.values,
                                           LAMBDA it : it.k \in InputNames(tool)))

\* C20 witness: a file with a key that is no input changed the second input
\* and the first, which it does not name, kept a value that is not its
\* initial one.
C20_Witness ==
    /\ imported.applied
    /\ N_zz \in Keys(imported.file.values)
    /\ fields[tool.inputs[2].name] # imported.before[tool.inputs[2].name]
    /\ fields[tool.inputs[1].name] # set_tool_widget(tool.inputs[1])

\* ------------------------------------------------------------ claims C21, C24, C30
\* A key the application keeps for itself: one that begins with an
\* underscore and is no parameter of the tool.
Internal(t, k) == k # <<>> /\ k[1] = "_" /\ k \notin InputNames(t)

\* C21: the values of a file just exported are the values of the declared
\* parameters of the tool, one entry per parameter, and hold neither the
\* reserved output-directory key nor another internal key.
C21_ExportedValuesAreDeclared ==
    [][exported' # exported =>
          LET values == exported'.file.values
          IN  /\ Keys(values) = InputNames(tool)
              /\ Len(values) = Len(tool.inputs)
              /\ \A i \in 1..Len(tool.inputs) :
                    tool.inputs[i].name \in Keys(values) =>
                        Get(values, tool.inputs[i].name)
                            = collect_value(tool.inputs[i], fields[tool.inputs[i].name])
              /\ \A k \in Keys(values) : ~Internal(tool, k)]_vars

\* The toggle inputs of the tool that the imported file names.
ImportedToggles ==
    {i \in 1..Len(tool.inputs) :
        /\ tool.inputs[i].type = "toggle"
        /\ tool.inputs[i].name \in Keys(imported.file.values)}

\* C24: a check box is on exactly when the text of the value is one of
\* true, yes, on, 1 in any case, for the default of the input when the form
\* is built and for the value of an applied import, and both give the same
\* for the same value.
C24_BooleanCoercion ==
    /\ \A i \in 1..Len(tool.inputs) :
          tool.inputs[i].type = "toggle" =>
              set_tool_widget(tool.inputs[i]).checked
                  = (tool.inputs[i].default # None
                     /\ lower(str(tool.inputs[i].default)) \in OnWords)
    /\ imported.applied =>
          \A i \in ImportedToggles :
              LET v == Get(imported.file.values, tool.inputs[i].name)
              IN  /\ fields[tool.inputs[i].name].checked
                        = (v # None /\ lower(str(v)) \in OnWords)
                  /\ fields[tool.inputs[i].name].checked
                        = set_tool_widget([tool.inputs[i] EXCEPT !.default = v]).checked

\* C24 as amended: the same with the blanks at the ends of the text left
\* out of the comparison.
C24_BooleanCoercionTrimmed ==
    /\ \A i \in 1..Len(tool.inputs) :
          tool.inputs[i].type = "toggle" =>
              set_tool_widget(tool.inputs[i]).checked
                  = (tool.inputs[i].default # None
                     /\ lower(strip(str(tool.inputs[i].default))) \in OnWords)
    /\ imported.applied =>
          \A i \in ImportedToggles :
              LET v == Get(imported.file.values, tool.inputs[i].name)
              IN  /\ fields[tool.inputs[i].name].checked
                        = (v # None /\ lower(strip(str(v))) \in OnWords)
                  /\ fields[tool.inputs[i].name].checked
                        = set_tool_widget([tool.inputs[i] EXCEPT !.default = v]).checked

\* C24 witness: a form whose second check box was built on from the default
\* " on" and switched off has it switched on again by the import of "Yes".
C24_Witness ==
    /\ imported.applied
    /\ tool.inputs[2].default = Str(<<SP, "o", "n">>)
    /\ N_t \in Keys(imported.file.values)
    /\ Get(imported.file.values, N_t) = Str(<<"Y", "e", "s">>)
    /\ ~imported.before[N_t].checked
    /\ fields[N_t].checked

\* C30: after an applied import every input the file names whose value
\* could be coerced has that value, and every one whose value raised has
\* the value it had before and is named in the log.
C30_CoercionFailureNonFatal ==
    imported.applied =>
        \A i \in 1..Len(tool.inputs) :
            LET spec == tool.inputs[i]
                r    == apply_value(spec, imported.before[spec.name],
                                    Get(imported.file.values, spec.name))
            IN  spec.name \in Keys(imported.file.values) =>
                    IF r.ok
                    THEN fields[spec.name] = r.val
                    ELSE /\ fields[spec.name] = imported.before[spec.name]
                         /\ \E j \in 1..Len(imported.log) : imported.log[j] = spec.name

\* C30 witness: the value of the first input raised, the spin box kept a
\* value that is not its initial one, and the second input was changed.
C30_Witness ==
    /\ imported.applied
    /\ imported.log = <<tool.inputs[1].name>>
    /\ fields[tool.inputs[1].name] # set_tool_widget(tool.inputs[1])
    /\ tool.inputs[2].name \in Keys(imported.file.values)
    /\ fields[tool.inputs[2].name] # imported.before[tool.inputs[2].name]

RunPending == start_timers > 0

RunActive == \E r \in Runs : q_state[r] = "Running"

\* C26: while Stop is the last request made on the form since a run request
\* was accepted (the status says so until a run ends or another is
\* requested), no child of the form is alive: the child was killed, has
\* ended, or was never started.
C26_StopNeverLost ==
    (supervisor = "QProcRunner" /\ status = "Stopping...") =>
        \A r \in Runs : ~children[r].alive

\* C27: Run is enabled exactly when no run is pending or active, Stop
\* exactly when one is, and the runner of the form is the one of every
\* child alive.
C27_ControlsFollowRuns ==
    supervisor = "QProcRunner" =>
        /\ run_btn <=> ~(RunPending \/ RunActive)
        /\ stop_btn <=> (RunPending \/ RunActive)
        /\ \A r \in Runs : children[r].alive => runner = r

\* ------------------------------------------------------------ claims C22, C28
\* A config with the fields that are not defined for a tool or for an input
\* left out.
KnownFields(raw) ==
    [n \in 1..Len(raw) |->
        RawTool(SelectSeq(raw[n].d, LAMBDA it : it.k \in ToolSpecFields),
                [m \in 1..Len(raw[n].inputs) |->
                    SelectSeq(raw[n].inputs[m], LAMBDA it : it.k \in InputSpecFields)])]

\* C22: a load of a config never fails for a field that is not defined for
\* a tool or for an input: the tools afterwards are those of the config
\* without such fields.
C22_UnknownFieldsDropped ==
    [][(loaded'.called /\ loaded' # loaded) =>
          /\ loaded'.ok
          /\ tools' = load_config(KnownFields(loaded'.raw)).val]_vars

\* No selection timer and no set_tool call is pending.
Quiescent == ~select_timer /\ set_tool_timers = <<>>

\* C28: when no timer is pending, the tool the form holds is the tool at
\* the current row of the list.
C28_FormToolIsSelected ==
    (Quiescent /\ tool # NoTool) =>
        /\ current_tool_index(tools, list_row) # 0
        /\ tools[list_row] = tool

====
